---- MODULE Spec2Model ----
(***************************************************************************)
(* bctools: merge_pcr_duplicates.py (join / filter / collapse of aligned   *)
(* reads against a random-barcode library) and the pattern validation and  *)
(* extraction loop of extract_bcs.py.                                      *)
(*                                                                         *)
(* A string is a sequence of one-character strings, so that the byte order *)
(* the scripts sort and compare by is part of the model.                   *)
(***************************************************************************)
EXTENDS Integers, Sequences, FiniteSets, TLC

VARIABLES pc, bclib, bclib_ok, bedfile, bedfile_ok,
          bcs, alns, bcalib, bcalib_cleaned, merged,
          eventalnout, out, log, err, stages,
          xpc, pattern, fastq, out_bc_fasta, barcode_positions, seq_positions,
          last_seq_start, min_readlen, nread, samout, faout, xlog, xerr

mvars == <<pc, bclib, bclib_ok, bedfile, bedfile_ok, bcs, alns, bcalib,
           bcalib_cleaned, merged, eventalnout, out, log, err, stages>>

xvars == <<xpc, pattern, fastq, out_bc_fasta, barcode_positions, seq_positions,
           last_seq_start, min_readlen, nread, samout, faout, xlog, xerr>>

vars == <<mvars, xvars>>

\* ------------------------------------------------------------------ bounds
MaxAlns == 2
MaxLib == 2
MaxAlnsQ == 5
MaxPattern == 3
MaxReads == 2

\* ----------------------------------------------------------------- strings
\* Code point of a character (Python compares str by code point).
Ord(c) ==
  CASE c = "\n" -> 10
    [] c = "+" -> 43
    [] c = "-" -> 45
    [] c = "." -> 46
    [] c = "0" -> 48
    [] c = "1" -> 49
    [] c = "2" -> 50
    [] c = "3" -> 51
    [] c = "4" -> 52
    [] c = "5" -> 53
    [] c = "6" -> 54
    [] c = "7" -> 55
    [] c = "8" -> 56
    [] c = "9" -> 57
    [] c = "A" -> 65
    [] c = "C" -> 67
    [] c = "G" -> 71
    [] c = "I" -> 73
    [] c = "N" -> 78
    [] c = "X" -> 88
    [] c = "n" -> 110
    [] c = "r" -> 114
    [] c = "x" -> 120

IsDigit(c) == Ord(c) >= Ord("0") /\ Ord(c) <= Ord("9")

RECURSIVE StrLess(_, _)
\* a < b for Python strings: lexicographic by code point, a proper prefix first.
StrLess(a, b) ==
  IF b = <<>> THEN FALSE
  ELSE IF a = <<>> THEN TRUE
  ELSE IF Ord(Head(a)) # Ord(Head(b)) THEN Ord(Head(a)) < Ord(Head(b))
  ELSE StrLess(Tail(a), Tail(b))

\* "c" occurs in s (the regular expression "N" is a plain substring search).
Contains(s, c) == \E i \in 1..Len(s) : s[i] = c

\* The text is a decimal integer literal, as read_csv's int conversion takes it.
IsIntLiteral(s) == Len(s) > 0 /\ \A i \in 1..Len(s) : IsDigit(s[i])

RECURSIVE ParseInt(_)
ParseInt(s) ==
  IF s = <<>> THEN 0
  ELSE 10 * ParseInt(SubSeq(s, 1, Len(s) - 1)) + (Ord(s[Len(s)]) - Ord("0"))

DigitChar(d) == CHOOSE c \in {"0","1","2","3","4","5","6","7","8","9"} : Ord(c) - Ord("0") = d

RECURSIVE FormatInt(_)
\* str(n) for n >= 0.
FormatInt(n) ==
  IF n < 10 THEN <<DigitChar(n)>>
  ELSE Append(FormatInt(n \div 10), DigitChar(n % 10))

\* ------------------------------------------------------------ table cells
\* A cell of a pandas column: an integer, a string (object dtype) or NaN.
IntCell(n) == [t |-> "int", n |-> n, s |-> <<>>]
StrCell(s) == [t |-> "str", n |-> 0, s |-> s]
NaN == [t |-> "nan", n |-> 0, s |-> <<>>]

\* Order of two cells of one column, as pandas sorts the group keys: numbers
\* numerically, strings by code point.
CellLess(a, b) ==
  IF a.t = "int" /\ b.t = "int" THEN a.n < b.n
  ELSE IF a.t = "str" /\ b.t = "str" THEN StrLess(a.s, b.s)
  ELSE FALSE

\* to_csv's text of a cell.
CellText(c) == IF c.t = "int" THEN FormatInt(c.n) ELSE c.s

\* ------------------------------------------------------------------ inputs
r1 == <<"r", "1">>
r2 == <<"r", "2">>
r3 == <<"r", "3">>

\* A line of the bed file, split at its tabs: chrom, start, stop, read id,
\* score, strand.  The last two lines are malformed: a start that is no
\* integer, and a line of five fields (no strand).
BedLines ==
  { << <<"9">>,      <<"5">>,      <<"2", "0">>, r1, <<".">>, <<"+">> >>,
    << <<"9">>,      <<"1", "0">>, <<"2", "0">>, r1, <<".">>, <<"+">> >>,
    << <<"9">>,      <<"5">>,      <<"7">>,      r2, <<".">>, <<"+">> >>,
    << <<"9">>,      <<"5">>,      <<"2", "0">>, r2, <<".">>, <<"-">> >>,
    << <<"1", "0">>, <<"5">>,      <<"2", "0">>, r2, <<".">>, <<"+">> >>,
    << <<"X">>,      <<"5">>,      <<"2", "0">>, r1, <<".">>, <<"+">> >>,
    << <<"9">>,      <<"5">>,      <<"2", "0">>, r3, <<".">>, <<"+">> >>,
    << <<"9">>,      <<"x">>,      <<"2", "0">>, r1, <<".">>, <<"+">> >>,
    << <<"9">>,      <<"5">>,      <<"2", "0">>, r1, <<".">> >> }

\* A record of the fasta library: identifier and sequence.
FastaRecords ==
  { [id |-> r1, seq |-> <<"A", "C">>],
    [id |-> r1, seq |-> <<"N", "A">>],
    [id |-> r2, seq |-> <<"A", "C">>],
    [id |-> r2, seq |-> <<"n", "A">>] }

\* The inputs of the runs that exercise the severity threshold of the filter.
BedLinesQ ==
  { << <<"9">>, <<"5">>, <<"2", "0">>, r1, <<".">>, <<"+">> >>,
    << <<"9">>, <<"5">>, <<"2", "0">>, r2, <<".">>, <<"-">> >> }

FastaRecordsQ ==
  { [id |-> r1, seq |-> <<"A", "C">>],
    [id |-> r2, seq |-> <<"A", "N">>] }

SeqsUpTo(S, n) == UNION { [1..k -> S] : k \in 0..n }

\* ----------------------------------------------------------------- loaders
\* fasta_tuple_generator + DataFrame.from_records: one row per record of the
\* library, in file order; the sequence is copied as it is.
fasta_tuple_generator(records) ==
  [i \in 1..Len(records) |->
     [read_id |-> StrCell(records[i].id), bc |-> StrCell(records[i].seq)]]

\* read_csv infers the type of a column from all of its values: int64 when
\* every present value is an integer literal, object (str) otherwise.
ColIsInt(lines, k) ==
  \A i \in 1..Len(lines) : k <= Len(lines[i]) => IsIntLiteral(lines[i][k])

\* The value of column k in row i; a line with fewer fields than names is
\* padded with NaN.
Cell(lines, k, i) ==
  IF k > Len(lines[i]) THEN NaN
  ELSE IF ColIsInt(lines, k) THEN IntCell(ParseInt(lines[i][k]))
  ELSE StrCell(lines[i][k])

\* pd.read_csv(sep="\t", names=[chrom, start, stop, read_id, score, strand]);
\* an empty file gives an empty table (names are given, so no header is read).
read_csv(lines) ==
  [i \in 1..Len(lines) |->
     [chrom   |-> Cell(lines, 1, i),
      start   |-> Cell(lines, 2, i),
      stop    |-> Cell(lines, 3, i),
      read_id |-> Cell(lines, 4, i),
      score   |-> Cell(lines, 5, i),
      strand  |-> Cell(lines, 6, i)]]

\* -------------------------------------------------------------------- join
RECURSIVE MatchesOf(_, _)
\* The rows of the alignments whose read_id equals that of library row b,
\* in table order, each with b's barcode.
MatchesOf(b, table) ==
  IF table = <<>> THEN <<>>
  ELSE LET a == Head(table)
           rest == MatchesOf(b, Tail(table))
       IN IF a.read_id = b.read_id
          THEN <<[read_id |-> b.read_id, bc |-> b.bc, chrom |-> a.chrom,
                  start |-> a.start, stop |-> a.stop, score |-> a.score,
                  strand |-> a.strand]>> \o rest
          ELSE rest

RECURSIVE merge(_, _)
\* pd.merge(bcs, alns, on="read_id", how="inner", sort=False): every pair of
\* a library row and an alignment row with the same read_id.
merge(left, right) ==
  IF left = <<>> THEN <<>>
  ELSE MatchesOf(Head(left), right) \o merge(Tail(left), right)

\* The check as it would be if it excused an empty alignment table.
NoCommonEntries_UnlessNoAlignments(joined, table) == joined = <<>> /\ table # <<>>

\* bcalib.empty decides the "no common entries" exception.
NoCommonEntries(joined, table) == joined = <<>>

\* The comparison with the equal case let through.
ReportsUnmatched_OrEqual(n_bcalib, n_alns) == n_bcalib <= n_alns

\* n_bcalib < n_alns decides the "could not be associated" warning.
ReportsUnmatched(n_bcalib, n_alns) == n_bcalib < n_alns

\* ------------------------------------------------------------------ filter
\* The search made case-insensitive.
HasUncalledBase_AnyCase(r) == Contains(r.bc.s, "N") \/ Contains(r.bc.s, "n")

\* bcalib.bc.str.contains("N"): the rows that are dropped.
HasUncalledBase(r) == Contains(r.bc.s, "N")

drop_uncalled(joined) == SelectSeq(joined, LAMBDA r : ~HasUncalledBase(r))

\* The threshold with the 20% case counted as a warning.
IsWarning_AtThreshold(n_bcalib_cleaned, n_bcalib) == 5 * n_bcalib_cleaned <= 4 * n_bcalib

\* n_bcalib_cleaned < 0.8 * n_bcalib, in exact arithmetic: 0.8 * n rounds to
\* the integer 4n/5 whenever that is one, and no integer lies between the
\* double and 4n/5 otherwise, so the float comparison is the integer one.
IsWarning(n_bcalib_cleaned, n_bcalib) == 5 * n_bcalib_cleaned < 4 * n_bcalib

\* ---------------------------------------------------------------- collapse
KeyOf(r) == <<r.chrom, r.start, r.stop, r.strand, r.bc>>

KeyHasNaN(k) == \E i \in 1..5 : k[i].t = "nan"

\* Order of two group keys: by the first column that differs.
KeyLess(a, b) ==
  \E i \in 1..5 : (\A j \in 1..(i - 1) : a[j] = b[j]) /\ CellLess(a[i], b[i])

RECURSIVE SortKeys(_)
SortKeys(S) ==
  IF S = {} THEN <<>>
  ELSE LET m == CHOOSE k \in S : \A o \in S \ {k} : KeyLess(k, o)
       IN <<m>> \o SortKeys(S \ {m})

\* The keys groupby forms: rows with NaN in a key column belong to no group.
GroupKeys(rows) ==
  { KeyOf(rows[i]) : i \in 1..Len(rows) } \ { k \in { KeyOf(rows[i]) : i \in 1..Len(rows) } : KeyHasNaN(k) }

GroupSize(rows, k) == Cardinality({ i \in 1..Len(rows) : KeyOf(rows[i]) = k })

\* groupby([chrom, start, stop, strand, bc]).size().reset_index(), ndupes
\* being the size: one row per key, the keys sorted.
groupby_size(rows) ==
  LET ks == SortKeys(GroupKeys(rows))
  IN [i \in 1..Len(ks) |->
        [chrom |-> ks[i][1], start |-> ks[i][2], stop |-> ks[i][3],
         strand |-> ks[i][4], bc |-> ks[i][5],
         ndupes |-> GroupSize(rows, ks[i])]]

\* ------------------------------------------------------------------ writer
\* to_csv(columns=[chrom, start, stop, bc, ndupes, strand], sep="\t").
to_csv(table) ==
  [i \in 1..Len(table) |->
     <<CellText(table[i].chrom), CellText(table[i].start),
       CellText(table[i].stop), CellText(table[i].bc),
       FormatInt(table[i].ndupes), CellText(table[i].strand)>>]

\* ------------------------------------------------------------ extract_bcs
\* extract_bcs.py is not running.
XIdle ==
  /\ xpc = "idle"
  /\ pattern = <<>>
  /\ fastq = <<>>
  /\ out_bc_fasta = FALSE
  /\ barcode_positions = <<>>
  /\ seq_positions = <<>>
  /\ last_seq_start = 0
  /\ min_readlen = 0
  /\ nread = 0
  /\ samout = <<>>
  /\ faout = <<>>
  /\ xlog = <<>>
  /\ xerr = "none"

\* The patterns a caller can pass: X and N, a letter that is neither, and a
\* line feed.
PatternChars == {"X", "N", "I", "\n"}

\* A read of the fastq file: header, sequence, quality string.
FastqReads ==
  { [header |-> r1, seq |-> <<"A", "C", "G">>, qual |-> <<"I", "5", "I">>],
    [header |-> r2, seq |-> <<"A">>,           qual |-> <<"5">>],
    [header |-> r3, seq |-> <<"N", "C">>,      qual |-> <<"5", "I">>] }

\* valid_pattern.match(pattern) with valid_pattern = "^[XN]+$": one or more
\* of X and N from the start, up to the end of the string or up to a line
\* feed that ends the string (where "$" matches without re.MULTILINE too).
valid_pattern_match(p) ==
  \E k \in 1..Len(p) :
    /\ \A i \in 1..k : p[i] \in {"X", "N"}
    /\ \/ k = Len(p)
       \/ k = Len(p) - 1 /\ p[Len(p)] = "\n"

\* has_bcpos_pattern.search(pattern) with has_bcpos_pattern = "X".
has_bcpos_pattern_search(p) == Contains(p, "X")

\* The matches of "X+": the maximal runs of X, as (start, end) with the start
\* counted from 0 and the end exclusive.
XRuns(p) ==
  { se \in (0..Len(p)) \X (0..Len(p)) :
      /\ se[1] < se[2]
      /\ \A i \in (se[1] + 1)..se[2] : p[i] = "X"
      /\ (se[1] = 0 \/ p[se[1]] # "X")
      /\ (se[2] = Len(p) \/ p[se[2] + 1] # "X") }

RECURSIVE InOrder(_)
\* re.finditer yields the matches from left to right.
InOrder(S) ==
  IF S = {} THEN <<>>
  ELSE LET m == CHOOSE a \in S : \A b \in S : a[1] <= b[1]
       IN <<m>> \o InOrder(S \ {m})

\* Lines 103-107: the stretches between the barcode stretches.
SeqPositions(bps) ==
  [i \in 1..Len(bps) |-> <<IF i = 1 THEN 0 ELSE bps[i - 1][2], bps[i][1]>>]

\* s[a:b] of Python, for 0 <= a.
Slice(s, a, b) == SubSeq(s, a + 1, IF b < Len(s) THEN b ELSE Len(s))

RECURSIVE JoinSlices(_, _)
\* "".join(s[a:b] for (a, b) in positions).
JoinSlices(s, positions) ==
  IF positions = <<>> THEN <<>>
  ELSE Slice(s, Head(positions)[1], Head(positions)[2]) \o JoinSlices(s, Tail(positions))

XInit ==
  /\ xpc = "check_valid"
  /\ pattern \in SeqsUpTo(PatternChars, MaxPattern)
  /\ fastq \in SeqsUpTo(FastqReads, MaxReads)
  /\ out_bc_fasta \in BOOLEAN
  /\ barcode_positions = <<>>
  /\ seq_positions = <<>>
  /\ last_seq_start = 0
  /\ min_readlen = 0
  /\ nread = 0
  /\ samout = <<>>
  /\ faout = <<>>
  /\ xlog = <<>>
  /\ xerr = "none"

\* merge_pcr_duplicates.py is not running.
MIdle ==
  /\ pc = "idle"
  /\ bclib = <<>>
  /\ bclib_ok = TRUE
  /\ bedfile = <<>>
  /\ bedfile_ok = TRUE
  /\ bcs = <<>>
  /\ alns = <<>>
  /\ bcalib = <<>>
  /\ bcalib_cleaned = <<>>
  /\ merged = <<>>
  /\ eventalnout = "unopened"
  /\ out = <<>>
  /\ log = <<>>
  /\ err = "none"
  /\ stages = <<>>

InitExtract == XInit /\ MIdle

\* Lines 75-79.
ValidatePattern ==
  /\ xpc = "check_valid"
  /\ IF valid_pattern_match(pattern)
     THEN xpc' = "check_bcpos" /\ xerr' = xerr
     ELSE xpc' = "failed" /\ xerr' = "not valid"
  /\ UNCHANGED <<pattern, fastq, out_bc_fasta, barcode_positions, seq_positions,
                 last_seq_start, min_readlen, nread, samout, faout, xlog>>
  /\ UNCHANGED mvars

\* Lines 81-85.
CheckBarcodePosition ==
  /\ xpc = "check_bcpos"
  /\ IF has_bcpos_pattern_search(pattern)
     THEN xpc' = "analyse" /\ xerr' = xerr
     ELSE xpc' = "failed" /\ xerr' = "no barcode position"
  /\ UNCHANGED <<pattern, fastq, out_bc_fasta, barcode_positions, seq_positions,
                 last_seq_start, min_readlen, nread, samout, faout, xlog>>
  /\ UNCHANGED mvars

\* Lines 87-109.
AnalysePattern ==
  /\ xpc = "analyse"
  /\ LET bps == InOrder(XRuns(pattern))
     IN /\ barcode_positions' = bps
        /\ min_readlen' = bps[Len(bps)][2]
        /\ seq_positions' = SeqPositions(bps)
        /\ last_seq_start' = bps[Len(bps)][2]
  /\ xpc' = "loop"
  /\ UNCHANGED <<pattern, fastq, out_bc_fasta, nread, samout, faout, xlog, xerr>>
  /\ UNCHANGED mvars

\* Lines 114-153: one read of the fastq file.
ProcessRead ==
  /\ xpc = "loop"
  /\ nread < Len(fastq)
  /\ nread' = nread + 1
  /\ LET read == fastq[nread + 1]
         barcode == JoinSlices(read.seq, barcode_positions)
         new_seq == JoinSlices(read.seq, seq_positions)
                      \o Slice(read.seq, last_seq_start, Len(read.seq))
         new_qual == JoinSlices(read.qual, seq_positions)
                       \o Slice(read.qual, last_seq_start, Len(read.qual))
     IN IF Len(read.seq) < min_readlen
        THEN /\ xlog' = Append(xlog, <<"too short", read.header>>)
             /\ UNCHANGED <<samout, faout>>
        ELSE IF Len(new_seq) = 0
        THEN /\ xlog' = Append(xlog, <<"no sequence remains", read.header>>)
             /\ UNCHANGED <<samout, faout>>
        ELSE /\ samout' = Append(samout, [header |-> read.header \o <<" ">> \o barcode,
                                          seq |-> new_seq, qual |-> new_qual])
             /\ faout' = IF out_bc_fasta
                         THEN Append(faout, [id |-> read.header, seq |-> barcode])
                         ELSE faout
             /\ xlog' = xlog
  /\ UNCHANGED <<xpc, pattern, fastq, out_bc_fasta, barcode_positions, seq_positions,
                 last_seq_start, min_readlen, xerr>>
  /\ UNCHANGED mvars

\* Lines 155-158.
CloseOutputs ==
  /\ xpc = "loop"
  /\ nread = Len(fastq)
  /\ xpc' = "done"
  /\ UNCHANGED <<pattern, fastq, out_bc_fasta, barcode_positions, seq_positions,
                 last_seq_start, min_readlen, nread, samout, faout, xlog, xerr>>
  /\ UNCHANGED mvars

NextExtract ==
  \/ ValidatePattern
  \/ CheckBarcodePosition
  \/ AnalysePattern
  \/ ProcessRead
  \/ CloseOutputs

SpecExtract == InitExtract /\ [][NextExtract]_vars

\* ---------------------------------------------------- merge_pcr_duplicates
InitOver(lines, maxAlns, records, maxLib) ==
  /\ bclib_ok \in BOOLEAN
  /\ bedfile_ok \in BOOLEAN
  /\ bclib \in (IF bclib_ok THEN SeqsUpTo(records, maxLib) ELSE {<<>>})
  /\ bedfile \in (IF bedfile_ok THEN SeqsUpTo(lines, maxAlns) ELSE {<<>>})
  /\ pc = "load_bclib"
  /\ bcs = <<>>
  /\ alns = <<>>
  /\ bcalib = <<>>
  /\ bcalib_cleaned = <<>>
  /\ merged = <<>>
  /\ eventalnout = "unopened"
  /\ out = <<>>
  /\ log = <<>>
  /\ err = "none"
  /\ stages = <<>>
  /\ XIdle

Init == InitOver(BedLines, MaxAlns, FastaRecords, MaxLib)

InitQ == InitOver(BedLinesQ, MaxAlnsQ, FastaRecordsQ, MaxLib)

\* Lines 87-92: the library cannot be opened or parsed, or is loaded.
LoadLibrary ==
  /\ UNCHANGED xvars
  /\ pc = "load_bclib"
  /\ IF bclib_ok
     THEN /\ bcs' = fasta_tuple_generator(bclib)
          /\ pc' = "load_alns"
          /\ stages' = Append(stages, "load_bclib")
          /\ err' = err
     ELSE /\ err' = "MalformedInput"
          /\ pc' = "failed"
          /\ UNCHANGED <<bcs, stages>>
  /\ UNCHANGED <<bclib, bclib_ok, bedfile, bedfile_ok, alns, bcalib,
                 bcalib_cleaned, merged, eventalnout, out, log>>

\* Lines 94-98: the bed file cannot be read, or is loaded.
LoadAlignments ==
  /\ UNCHANGED xvars
  /\ pc = "load_alns"
  /\ IF bedfile_ok
     THEN /\ alns' = read_csv(bedfile)
          /\ pc' = "merge"
          /\ stages' = Append(stages, "load_alns")
          /\ err' = err
     ELSE /\ err' = "UnreadableAlignments"
          /\ pc' = "failed"
          /\ UNCHANGED <<alns, stages>>
  /\ UNCHANGED <<bclib, bclib_ok, bedfile, bedfile_ok, bcs, bcalib,
                 bcalib_cleaned, merged, eventalnout, out, log>>

\* Lines 100-113: join, the empty check, the unmatched diagnostic.
Join ==
  /\ UNCHANGED xvars
  /\ pc = "merge"
  /\ LET joined == merge(bcs, alns)
         n_alns == Len(alns)
         n_bcalib == Len(joined)
     IN /\ bcalib' = joined
        /\ IF NoCommonEntries(joined, alns)
           THEN /\ err' = "NoOverlap"
                /\ pc' = "failed"
                /\ UNCHANGED <<log, stages>>
           ELSE /\ err' = err
                /\ pc' = "clean"
                /\ stages' = Append(stages, "merge")
                /\ log' = IF ReportsUnmatched(n_bcalib, n_alns)
                          THEN Append(log, [level |-> "warning", what |-> "unmatched",
                                            n |-> n_alns - n_bcalib, of |-> n_alns])
                          ELSE log
  /\ UNCHANGED <<bclib, bclib_ok, bedfile, bedfile_ok, bcs, alns,
                 bcalib_cleaned, merged, eventalnout, out>>

\* Lines 115-124: drop the barcodes with an uncalled base, report the drop.
Clean ==
  /\ UNCHANGED xvars
  /\ pc = "clean"
  /\ LET cleaned == drop_uncalled(bcalib)
         n_bcalib == Len(bcalib)
         n_bcalib_cleaned == Len(cleaned)
     IN /\ bcalib_cleaned' = cleaned
        /\ log' = IF n_bcalib_cleaned < n_bcalib
                  THEN Append(log,
                         [level |-> IF IsWarning(n_bcalib_cleaned, n_bcalib)
                                    THEN "warning" ELSE "info",
                          what |-> "dropped",
                          n |-> n_bcalib - n_bcalib_cleaned, of |-> n_bcalib])
                  ELSE log
  /\ pc' = "group"
  /\ stages' = Append(stages, "clean")
  /\ UNCHANGED <<bclib, bclib_ok, bedfile, bedfile_ok, bcs, alns, bcalib,
                 merged, eventalnout, out, err>>

\* Lines 126-129: count and merge the duplicates.
Collapse ==
  /\ UNCHANGED xvars
  /\ pc = "group"
  /\ merged' = groupby_size(bcalib_cleaned)
  /\ pc' = "open"
  /\ stages' = Append(stages, "group")
  /\ UNCHANGED <<bclib, bclib_ok, bedfile, bedfile_ok, bcs, alns, bcalib,
                 bcalib_cleaned, eventalnout, out, log, err>>

\* The output opened ahead of the join, as a script that opens its files at
\* the top would.
OpenOutput_BeforeJoin ==
  /\ UNCHANGED xvars
  /\ \/ /\ pc = "merge"
        /\ eventalnout = "unopened"
        /\ eventalnout' = "open"
        /\ UNCHANGED <<pc, stages>>
     \/ /\ pc = "open"
        /\ pc' = "write"
        /\ stages' = Append(stages, "open")
        /\ UNCHANGED eventalnout
  /\ UNCHANGED <<bclib, bclib_ok, bedfile, bedfile_ok, bcs, alns, bcalib,
                 bcalib_cleaned, merged, out, log, err>>

\* Line 132: the output is opened.
OpenOutput ==
  /\ UNCHANGED xvars
  /\ pc = "open"
  /\ eventalnout' = "open"
  /\ pc' = "write"
  /\ stages' = Append(stages, "open")
  /\ UNCHANGED <<bclib, bclib_ok, bedfile, bedfile_ok, bcs, alns, bcalib,
                 bcalib_cleaned, merged, out, log, err>>

\* Lines 133-136: the rows are written.
WriteOutput ==
  /\ UNCHANGED xvars
  /\ pc = "write"
  /\ eventalnout = "open"
  /\ out' = to_csv(merged)
  /\ pc' = "close"
  /\ stages' = Append(stages, "write")
  /\ UNCHANGED <<bclib, bclib_ok, bedfile, bedfile_ok, bcs, alns, bcalib,
                 bcalib_cleaned, merged, eventalnout, log, err>>

\* Line 137.
CloseOutput ==
  /\ UNCHANGED xvars
  /\ pc = "close"
  /\ eventalnout' = "closed"
  /\ pc' = "done"
  /\ UNCHANGED <<bclib, bclib_ok, bedfile, bedfile_ok, bcs, alns, bcalib,
                 bcalib_cleaned, merged, out, log, err, stages>>

Next ==
  \/ LoadLibrary
  \/ LoadAlignments
  \/ Join
  \/ Clean
  \/ Collapse
  \/ OpenOutput
  \/ WriteOutput
  \/ CloseOutput

Spec == Init /\ [][Next]_vars

SpecQ == InitQ /\ [][Next]_vars

\* ================================================================ properties
\* Stage s of merge_pcr_duplicates.py has completed.
Did(s) == \E i \in 1..Len(stages) : stages[i] = s

\* The join of lines 100-107 has been computed (it is kept in bcalib whether
\* or not the empty check then raised).
JoinDone == Did("merge") \/ err = "NoOverlap"

NoN(s) == \A j \in 1..Len(s) : s[j] # "N"

InLibrary(a) == \E i \in 1..Len(bcs) : bcs[i].read_id = a.read_id

UniqueIds == \A i, j \in 1..Len(bcs) : bcs[i].read_id = bcs[j].read_id => i = j

\* Number of indices of sequence s that satisfy P.
CountIf(s, P(_)) == Cardinality({ i \in 1..Len(s) : P(s[i]) })

\* Order of two emitted rows <<chrom, start, stop, bc, ndupes, strand>> by
\* (chrom, start, stop, strand, barcode): start and stop as numbers, the
\* rest as strings.
NumLess(a, b) == IsIntLiteral(a) /\ IsIntLiteral(b) /\ ParseInt(a) < ParseInt(b)

OutRowLess(a, b) ==
  \/ StrLess(a[1], b[1])
  \/ a[1] = b[1] /\ NumLess(a[2], b[2])
  \/ a[1] = b[1] /\ a[2] = b[2] /\ NumLess(a[3], b[3])
  \/ a[1] = b[1] /\ a[2] = b[2] /\ a[3] = b[3] /\ StrLess(a[6], b[6])
  \/ a[1] = b[1] /\ a[2] = b[2] /\ a[3] = b[3] /\ a[6] = b[6] /\ StrLess(a[4], b[4])

\* C1: whenever the run completes, the emitted rows are strictly ascending by
\* (chrom, start, stop, strand, barcode), start and stop compared as numbers
\* and chrom, strand and barcode as strings.
C1_OutputStrictlySorted ==
  pc = "done" => \A i \in 1..(Len(out) - 1) : OutRowLess(out[i], out[i + 1])

\* C2: the filter keeps a joined record exactly when its barcode has no
\* upper-case N, and no emitted barcode holds an N.
C2_FilterKeepsIffNoN ==
  /\ Did("clean") => bcalib_cleaned = SelectSeq(bcalib, LAMBDA r : NoN(r.bc.s))
  /\ \A i \in 1..Len(out) : NoN(out[i][4])

\* A completed run that dropped a barcode with N and emitted one with n.
C2_Witness ==
  /\ pc = "done"
  /\ \E i \in 1..Len(bcalib) : ~NoN(bcalib[i].bc.s)
  /\ \E i \in 1..Len(out) : \E j \in 1..Len(out[i][4]) : out[i][4][j] = "n"

SumNdupes == LET RECURSIVE Sum(_)
                 Sum(s) == IF s = <<>> THEN 0 ELSE Head(s).ndupes + Sum(Tail(s))
             IN Sum(merged)

\* C3: collapse emits one record per distinct key of the filtered records,
\* ndupes being the number of filtered records with that key, so the ndupes
\* add up to the number of filtered records.
C3_CollapsePreservesCardinality ==
  Did("group") =>
    /\ \A i \in 1..Len(bcalib_cleaned) :
         Cardinality({ j \in 1..Len(merged) :
                         KeyOf(merged[j]) = KeyOf(bcalib_cleaned[i]) }) = 1
    /\ \A j \in 1..Len(merged) :
         /\ merged[j].ndupes >= 1
         /\ merged[j].ndupes =
              CountIf(bcalib_cleaned, LAMBDA r : KeyOf(r) = KeyOf(merged[j]))
    /\ SumNdupes = Len(bcalib_cleaned)

\* The joined record alignment a gives with the barcode of library row b.
Joined(a, b) ==
  [read_id |-> a.read_id, bc |-> b.bc, chrom |-> a.chrom, start |-> a.start,
   stop |-> a.stop, score |-> a.score, strand |-> a.strand]

NumUnmatched == CountIf(alns, LAMBDA a : ~InLibrary(a))

C5_NoOverlapOnlyForNonEmptyAlignments ==
  (Did("load_alns") /\ pc # "merge") =>
    (err = "NoOverlap" <=> (bcalib = <<>> /\ alns # <<>>))

\* C5, amended: the no-overlap error is raised exactly when the join is
\* empty, an empty alignment table included.
C5_NoOverlapIffJoinEmpty ==
  (Did("load_alns") /\ pc # "merge") =>
    /\ err = "NoOverlap" <=> bcalib = <<>>
    /\ err = "NoOverlap" => pc = "failed"
    /\ err # "NoOverlap" => Did("merge")

\* The error raised for an empty alignment table and a library that is not.
C5_Witness == err = "NoOverlap" /\ alns = <<>> /\ bcs # <<>> /\ bedfile_ok

\* A bed line that is not six fields with integer start and stop.
Malformed(line) ==
  \/ Len(line) # 6
  \/ ~IsIntLiteral(line[2])
  \/ ~IsIntLiteral(line[3])

\* C6: a malformed bed line makes the run fail with a malformed-record
\* error; it is never accepted, dropped or grouped.
C6_MalformedLineRejected ==
  (pc \notin {"load_bclib", "load_alns"} /\ bclib_ok /\ bedfile_ok
     /\ \E i \in 1..Len(bedfile) : Malformed(bedfile[i]))
    => (pc = "failed" /\ err = "MalformedRecord")

StageOrder == <<"load_bclib", "load_alns", "merge", "clean", "group", "open", "write">>

\* C7: nothing is written on a fatal error: the stages run in the order load,
\* join, filter, collapse, open, write; the output is opened only after the
\* collapse, and no error state exists once it has been opened.
C7_NoOutputOnError ==
  /\ Len(stages) <= Len(StageOrder)
  /\ stages = SubSeq(StageOrder, 1, Len(stages))
  /\ (err # "none" \/ pc = "failed") => (eventalnout = "unopened" /\ out = <<>>)
  /\ eventalnout # "unopened" => (Did("group") /\ err = "none")
  /\ out # <<>> => Did("open")
  /\ (pc = "failed") <=> (err # "none")

\* The no-overlap error, raised with the output still unopened.
C7_Witness ==
  /\ pc = "failed" /\ err = "NoOverlap" /\ alns # <<>>
  /\ eventalnout = "unopened" /\ out = <<>>

LegalPattern(p) ==
  /\ Len(p) > 0
  /\ \A i \in 1..Len(p) : p[i] \in {"X", "N"}
  /\ \E i \in 1..Len(p) : p[i] = "X"

\* C8: extract_bcs rejects, before any read is processed, every pattern that
\* is not a non-empty string of X and N with at least one X, and accepts
\* every pattern that is.
C8_PatternRejectedUnlessLegal ==
  /\ (xpc \in {"analyse", "loop", "done"} \/ nread > 0) => LegalPattern(pattern)
  /\ xpc = "failed" => ~LegalPattern(pattern)

\* C9: the dropped diagnostic is emitted only when a record was dropped; it
\* is a warning exactly when the dropped fraction is above one fifth, and the
\* run goes on to the collapse whatever was dropped.
C9_DropSeverity ==
  Did("clean") =>
    /\ (\E k \in 1..Len(log) : log[k].what = "dropped")
         <=> Len(bcalib_cleaned) < Len(bcalib)
    /\ \A k \in 1..Len(log) :
         log[k].what = "dropped" =>
           /\ log[k].n = Len(bcalib) - Len(bcalib_cleaned)
           /\ log[k].of = Len(bcalib)
           /\ log[k].n >= 1
           /\ log[k].level = (IF 5 * log[k].n > log[k].of THEN "warning" ELSE "info")
    /\ err = "none"
    /\ pc \in {"group", "open", "write", "close", "done"}

\* One of five joined records dropped (exactly 20%): informational, and the
\* run completes.
C9_Witness ==
  /\ pc = "done"
  /\ Len(bcalib) = 5 /\ Len(bcalib_cleaned) = 4
  /\ \E k \in 1..Len(log) : log[k].what = "dropped" /\ log[k].level = "info"

\* The barcode of the last library row with the read id of a.
LastBarcode(a) ==
  LET i == CHOOSE k \in 1..Len(bcs) :
             /\ bcs[k].read_id = a.read_id
             /\ \A m \in (k + 1)..Len(bcs) : bcs[m].read_id # a.read_id
  IN bcs[i].bc

\* C10: a read id that occurs more than once in the library keeps its last
\* entry only: each alignment with it gives one joined record, with the last
\* barcode, and the join is never longer than the alignment table.
C10_LastLibraryEntryWins ==
  JoinDone =>
    /\ Len(bcalib) <= Len(alns)
    /\ \A i \in 1..Len(bcalib) :
         \E j \in 1..Len(alns) :
           /\ alns[j].read_id = bcalib[i].read_id
           /\ bcalib[i].bc = LastBarcode(alns[j])

====
